---- MODULE Spec2Model ----
(***************************************************************************)
(* Model of the DevSite assistant: the query router (strict and simple    *)
(* policies), the quality check and the quality-gated fallback controller *)
(* of one chat session (src/src/app.py, src/router_agent.py), and the     *)
(* code indexer: the Java parser, the chunk builder and the index build   *)
(* (src/src/code_indexers, src/src/code_search_agent.py).                 *)
(*                                                                         *)
(* Text is modelled as a sequence of one-character strings, so that       *)
(* strip(), upper(), `in` and len() are computed, not assumed.            *)
(***************************************************************************)
EXTENDS Integers, Sequences, FiniteSets, TLC

\* ------------------------------------------------------------------ bounds

\* most declarations (classes, class ends, members, comments) in a Java file
MaxItems == 5

\* most classes of a chunked Java file of many classes
MaxClasses == 6

\* most regular methods of the class under test in a chunked Java file
MaxMethods == 41

\* most regular methods of a second, small class in the same file
MaxSmall == 3

\* most constructors of a class in a chunked Java file
MaxCtors == 1

\* most element types of an XML file, most functions of a Python file
MaxElements == 11

\* most pieces the text splitter cuts the raw text of one file into
MaxPieces == 2

\* most runs of build_code_index
MaxBuilds == 2

\* most methods or element types of a file of the indexed source tree
MaxVersions == 1

\* longest language-model response, counted in tokens of the token sets below
MaxTokens == 2
\* most chunks one retrieval returns in the model (the code asks for k = 8 / 5)
MaxResults == 2
\* most entries the conversation history grows to
MaxTurns == 2
\* most fragments the answer stream yields
MaxChunks == 1
\* most whitespace characters put before / after a context body
MaxPad == 1
\* how far around the threshold the context body lengths range
MaxDelta == 2
\* most route calls made against one fixed model response
MaxCalls == 2

\* ------------------------------------------------------- program constants

\* check_result_quality: contexts shorter than this are INSUFFICIENT
MinContextLen == 100
\* get_retrieved_context: page_content[:1000]
ContextChunkLimit == 1000
\* docs_retriever: search_kwargs k
DocsK == 8
\* code_retriever: search_kwargs k
CodeK == 5

\* ------------------------------------------------------------ text helpers

Whitespace == {" ", "\n", "\t", "\r", "\f"}

LowerCase == <<"a","b","c","d","e","f","g","h","i","j","k","l","m",
               "n","o","p","q","r","s","t","u","v","w","x","y","z">>

UpperCase == <<"A","B","C","D","E","F","G","H","I","J","K","L","M",
               "N","O","P","Q","R","S","T","U","V","W","X","Y","Z">>

MinOf(S) == CHOOSE x \in S : \A y \in S : x <= y

\* n copies of the character c
Rep(c, n) == [i \in 1..n |-> c]

\* s[:n]
Prefix(s, n) == IF Len(s) <= n THEN s ELSE SubSeq(s, 1, n)

\* str.strip(): drops leading and trailing whitespace
Strip(s) ==
    IF \A i \in 1..Len(s) : s[i] \in Whitespace THEN <<>>
    ELSE LET first == CHOOSE i \in 1..Len(s) :
                         /\ s[i] \notin Whitespace
                         /\ \A j \in 1..(i - 1) : s[j] \in Whitespace
             last  == CHOOSE i \in 1..Len(s) :
                         /\ s[i] \notin Whitespace
                         /\ \A j \in (i + 1)..Len(s) : s[j] \in Whitespace
         IN  SubSeq(s, first, last)

UpperChar(c) ==
    IF \E k \in 1..26 : LowerCase[k] = c
    THEN UpperCase[CHOOSE k \in 1..26 : LowerCase[k] = c]
    ELSE c

\* str.upper()
Upper(s) == [i \in 1..Len(s) |-> UpperChar(s[i])]

\* sub in s
Contains(s, sub) ==
    \E i \in 1..(Len(s) - Len(sub) + 1) : SubSeq(s, i, i + Len(sub) - 1) = sub

\* "".join(parts)
RECURSIVE Flatten(_)
Flatten(parts) ==
    IF parts = <<>> THEN <<>> ELSE Head(parts) \o Flatten(Tail(parts))

\* sep.join(parts)
RECURSIVE Join(_, _)
Join(sep, parts) ==
    IF parts = <<>> THEN <<>>
    ELSE IF Len(parts) = 1 THEN parts[1]
    ELSE parts[1] \o sep \o Join(sep, Tail(parts))

\* all sequences over S of length at most n
SeqsUpTo(S, n) == UNION {[1..k -> S] : k \in 0..n}

\* ------------------------------------------------------------------ labels

DOCS == <<"D","O","C","S">>
CODE == <<"C","O","D","E">>
BOTH == <<"B","O","T","H">>
SUFFICIENT == <<"S","U","F","F","I","C","I","E","N","T">>
INSUFFICIENT == <<"I","N">> \o SUFFICIENT

\* the pieces model responses are put together from
RouterTokens ==
    {DOCS, CODE, BOTH, <<"c","o","d","e">>, <<"B","o","t","h">>,
     <<" ">>, <<"\n">>, <<"x">>}

QualityTokens ==
    {SUFFICIENT, INSUFFICIENT, <<"s","u","f","f","i","c","i","e","n","t">>,
     <<"I","N">>, <<" ">>, <<"\n">>, <<"x">>}

\* what llm.invoke(prompt).content may be for the router prompt
RouterResponses == {Flatten(ts) : ts \in SeqsUpTo(RouterTokens, MaxTokens)}

\* what llm.invoke(prompt).content may be for the quality prompt
QualityResponses == {Flatten(ts) : ts \in SeqsUpTo(QualityTokens, MaxTokens)}

\* user questions
Questions == {<<"s","h","o","w"," ">> \o CODE}


\* ------------------------------------------------------------ the corpora

\* the chunks of the two persisted collections
DocChunks == {"guide_1", "guide_2"}

CodeChunks == {"Auth_1", "Auth_2"}

\* doc.page_content: guide_1 is long enough to pass the threshold on its own,
\* guide_2 is short, Auth_1 is long, Auth_2 has so much leading blank space
\* that its first 1000 characters hold fewer than 100 of text
PageContent(doc) ==
    CASE doc = "guide_1" -> Rep("g", MinContextLen + 20)
      [] doc = "guide_2" -> <<" ">> \o Rep("h", 40) \o <<"\n">>
      [] doc = "Auth_1"  -> Rep("a", MinContextLen)
      [] doc = "Auth_2"  -> Rep(" ", ContextChunkLimit - 50) \o Rep("b", MinContextLen)

\* doc.metadata.get("source", "unknown"): the chunks of one file share it
Source(doc) ==
    CASE doc \in DocChunks -> "setup.md"
      [] doc \in CodeChunks -> "Auth.java"

\* retriever.invoke(query): a ranked list of at most k distinct chunks
Retrieve(corpus, k) ==
    {r \in SeqsUpTo(corpus, MinOf({k, MaxResults})) :
        \A i, j \in 1..Len(r) : i /= j => r[i] /= r[j]}

\* the results tagged in reverse order
Tagged_reversed(docs, tag) ==
    [i \in 1..Len(docs) |-> <<docs[Len(docs) + 1 - i], tag>>]

\* [(doc, tag) for doc in docs]
Tagged(docs, tag) == [i \in 1..Len(docs) |-> <<docs[i], tag>>]

\* [doc for doc, _ in retrieved_docs]
Untagged(pairs) == [i \in 1..Len(pairs) |-> pairs[i][1]]

\* --------------------------------------------------------- pure functions

ContextSeparator == <<"\n", "\n", "-", "-", "-", "\n", "\n">>

\* get_retrieved_context(docs_list)
get_retrieved_context(docs_list) ==
    Join(ContextSeparator,
         [i \in 1..Len(docs_list) |->
            Prefix(PageContent(docs_list[i]), ContextChunkLimit)])

\* route_query with the test for BOTH left out of the first branch
route_query_code_first(question, llm_response) ==
    LET response == Upper(Strip(llm_response))
    IN  IF Contains(response, CODE) THEN CODE
        ELSE IF Contains(response, BOTH) THEN BOTH
        ELSE DOCS

\* route_query looking for the labels in the prompt (question and all)
\* instead of in the model's response
route_query_reads_prompt(question, llm_response) ==
    LET response == Upper(Strip(question \o <<"\n">> \o llm_response))
    IN  IF Contains(response, CODE) /\ ~Contains(response, BOTH) THEN CODE
        ELSE IF Contains(response, BOTH) THEN BOTH
        ELSE DOCS

\* route_query of src/src/app.py (strict policy); llm_response is what
\* llm.invoke(prompt).content returns for the prompt built from the question
route_query(question, llm_response) ==
    LET response == Upper(Strip(llm_response))
    IN  IF Contains(response, CODE) /\ ~Contains(response, BOTH) THEN CODE
        ELSE IF Contains(response, BOTH) THEN BOTH
        ELSE DOCS

\* the simple route_query without the upper-casing
route_query_simple_no_upper(question, llm_response) ==
    LET response == Strip(llm_response)
    IN  IF response \notin {DOCS, CODE, BOTH} THEN BOTH ELSE response

\* route_query of src/router_agent.py (simple policy)
route_query_simple(question, llm_response) ==
    LET response == Upper(Strip(llm_response))
    IN  IF response \notin {DOCS, CODE, BOTH} THEN BOTH ELSE response

\* check_result_quality measuring the context without stripping it
check_result_quality_unstripped(question, context, llm_response) ==
    IF context = <<>> \/ Len(context) < MinContextLen
    THEN [result |-> INSUFFICIENT, llm_calls |-> 0]
    ELSE LET response == Upper(Strip(llm_response))
         IN  [result |-> IF response \in {SUFFICIENT, INSUFFICIENT}
                         THEN response ELSE INSUFFICIENT,
              llm_calls |-> 1]

\* check_result_quality returning the model's response as it came
check_result_quality_unvalidated(question, context, llm_response) ==
    IF context = <<>> \/ Len(Strip(context)) < MinContextLen
    THEN [result |-> INSUFFICIENT, llm_calls |-> 0]
    ELSE [result |-> Upper(Strip(llm_response)), llm_calls |-> 1]

\* check_result_quality without the short-circuit for short contexts
check_result_quality_no_shortcut(question, context, llm_response) ==
    LET response == Upper(Strip(llm_response))
    IN  [result |-> IF response \in {SUFFICIENT, INSUFFICIENT}
                    THEN response ELSE INSUFFICIENT,
         llm_calls |-> 1]

\* check_result_quality(question, context): the label returned and the number
\* of language-model invocations made (llm_response is read only when one is)
check_result_quality(question, context, llm_response) ==
    IF context = <<>> \/ Len(Strip(context)) < MinContextLen
    THEN [result |-> INSUFFICIENT, llm_calls |-> 0]
    ELSE LET response == Upper(Strip(llm_response))
         IN  [result |-> IF response \in {SUFFICIENT, INSUFFICIENT}
                         THEN response ELSE INSUFFICIENT,
              llm_calls |-> 1]


\* what route_query can return for a question, over every response of the
\* model, computed once
RoutesOf ==
    [q \in Questions |-> {route_query(q, resp) : resp \in RouterResponses}]

\* the doc lists primary retrieval can hand to the quality check
PrimaryLists ==
    {d \o c : d \in Retrieve(DocChunks, DocsK), c \in Retrieve(CodeChunks, CodeK)}

\* what check_result_quality can return for the context sample of a doc
\* list, over every response of the model, computed once
QualityOf ==
    [q \in Questions, docs \in PrimaryLists |->
        {check_result_quality(q, get_retrieved_context(docs), resp) :
            resp \in QualityResponses}]

\* len(context_sample.strip()) for the context sample of a doc list,
\* computed once
SampleTextLen ==
    [docs \in PrimaryLists |-> Len(Strip(get_retrieved_context(docs)))]

\* ------------------------------------------------------- the chat session

VARIABLES
    docs_available,   \* the documentation vector store was opened
    code_available,   \* the code vector store was opened
    history,          \* st.session_state["history"]
    pc,               \* where the script run of the current turn stands
    user_query,       \* the chat input of the current turn
    primary_route,    \* what route_query returned
    final_route,      \* the route label reported for the turn
    routing_info,     \* the provenance note reported for the turn
    retrieved_docs,   \* the (doc, tag) pairs retrieved so far
    quality,          \* what check_result_quality returned, Unset before
    full_response,    \* the answer fragments streamed so far
    quality_calls,    \* llm.invoke calls made with the quality prompt, this turn
    primary_count,    \* len(retrieved_docs) when primary retrieval ended
    retrievals,       \* the retriever.invoke calls of this turn, in order
    rq_response,      \* router check: the model response under test
    rq_log,           \* router check: the route calls made, in order
    cq_context,       \* quality check: the context under test
    cq_response,      \* quality check: the model response under test
    cq_result,        \* quality check: what check_result_quality returned
    jp_items,         \* Java parser check: the declarations of the file, as written
    jp_code,          \* Java parser check: the text of the file, in tokens
    jp_pc,            \* Java parser check: "ready" before parse, "parsed" after
    jp_classes,       \* Java parser check: what JavaParser.parse returned
    jp_block,         \* Java parser check: a call of _extract_block and its result
    cb_file,          \* chunk builder check: the file under test
    cb_methods,       \* chunk builder check: what format_methods_for_chunks returned
    cb_pc,            \* chunk builder check: "ready" before the build, "built" after
    cb_chunks,        \* chunk builder check: what create_enhanced_chunks returned
    ix_tree,          \* index build: the source tree, file by file
    ix_pc,            \* index build: where build_code_index stands
    ix_docs,          \* index build: docs, what load_code_files returned
    ix_store,         \* index build: the chunks persisted in ./chroma_db_code
    ix_prior,         \* index build: the persisted chunks when the run began
    ix_builds         \* index build: the runs of build_code_index so far

turnVars == <<pc, user_query, primary_route, final_route, routing_info,
              retrieved_docs, quality, full_response, quality_calls,
              primary_count, retrievals>>

sessionVars == <<docs_available, code_available, history>>

routerVars == <<rq_response, rq_log>>

qualityVars == <<cq_context, cq_response, cq_result>>

parserVars == <<jp_items, jp_code, jp_pc, jp_classes, jp_block>>

chunkVars == <<cb_file, cb_methods, cb_pc, cb_chunks>>

indexVars == <<ix_tree, ix_pc, ix_docs, ix_store, ix_prior, ix_builds>>

indexerVars == <<parserVars, chunkVars, indexVars>>

vars == <<sessionVars, turnVars, routerVars, qualityVars, indexerVars>>

\* a name not bound yet (quality before the check, the labels before routing)
Unset == <<>>

\* the script run is over and the page waits for the next chat input
Waiting == {"idle", "no_info", "gen_error", "done"}

\* the f-string pieces of the provenance notes
FallbackAddedCode == <<"Fallback: Added CODE context">>

FallbackAddedDocs == <<"Fallback: Added DOCS context">>

QualityCheckNote(q) == <<"Quality check: ">> \o q

\* the label left as the primary route after a fallback to CODE
DocsPlusCode_not_updated == DOCS

DocsPlusCode == DOCS \o <<"+">> \o CODE

\* the label left as the primary route after a fallback to DOCS
CodePlusDocs_not_updated == CODE

CodePlusDocs == CODE \o <<"+">> \o DOCS

\* the fallback branch taken whatever the judgment was
FallbackCorpus_ignores_quality(route, q, docs_ok, code_ok) ==
    IF route = DOCS /\ code_ok THEN "code"
    ELSE IF route = CODE /\ docs_ok THEN "docs"
    ELSE "none"

\* the fallback going back to the corpus of the primary route
FallbackCorpus_same_corpus(route, q, docs_ok, code_ok) ==
    IF q = INSUFFICIENT
    THEN IF route = DOCS /\ docs_ok THEN "docs"
         ELSE IF route = CODE /\ code_ok THEN "code"
         ELSE "none"
    ELSE "none"

\* the corpus the fallback branch retrieves from, "none" when it does not
FallbackCorpus(route, q, docs_ok, code_ok) ==
    IF q = INSUFFICIENT
    THEN IF route = DOCS /\ code_ok THEN "code"
         ELSE IF route = CODE /\ docs_ok THEN "docs"
         ELSE "none"
    ELSE "none"

\* the turn stopped whatever was retrieved
AfterGate_stops(docs) == "no_info"

\* the turn goes on to answer generation unless nothing was retrieved
AfterGate(docs) == IF docs = <<>> THEN "no_info" ELSE "generating"

\* {source of doc : (doc, tag) in retrieved_docs, tag as given}
SourcesOf(pairs, tags) ==
    {Source(pairs[i][1]) : i \in {j \in 1..Len(pairs) : pairs[j][2] \in tags}}

\* the entry appended to the history at the end of a completed turn
HistoryEntry ==
    [user |-> user_query,
     assistant |->
        [response |-> full_response,
         source_type |-> final_route,
         sources |-> SourcesOf(retrieved_docs, {"docs"})
                        \cup SourcesOf(retrieved_docs, {"code"}),
         routing_info |-> routing_info]]

\* the history replaced by the new entry instead of extended with it
SaveToHistory_overwrite(h, entry) == <<entry>>

\* st.session_state["history"].append(entry)
SaveToHistory(h, entry) == Append(h, entry)

\* the script going on to the chat input although no corpus is available
StartupPc_no_stop(docs_ok, code_ok) == "idle"

\* if not docs_available and not code_available: st.error(...); st.stop()
StartupPc(docs_ok, code_ok) ==
    IF ~docs_ok /\ ~code_ok THEN "refused" ELSE "idle"

\* the state after construction of the session and of the two check harnesses
InitSession ==
    /\ docs_available \in BOOLEAN
    /\ code_available \in BOOLEAN
    /\ history = <<>>
    /\ pc = StartupPc(docs_available, code_available)
    /\ user_query = Unset
    /\ primary_route = Unset
    /\ final_route = Unset
    /\ routing_info = <<>>
    /\ retrieved_docs = <<>>
    /\ quality = Unset
    /\ full_response = <<>>
    /\ quality_calls = 0
    /\ primary_count = 0
    /\ retrievals = <<>>

IdleRouter ==
    /\ rq_response = Unset
    /\ rq_log = <<>>

IdleQuality ==
    /\ cq_context = Unset
    /\ cq_response = Unset
    /\ cq_result = Unset

\* no file is being parsed beside the session
IdleParser ==
    /\ jp_items = <<>>
    /\ jp_code = <<>>
    /\ jp_pc = "idle"
    /\ jp_classes = <<>>
    /\ jp_block = <<>>

\* no file is being chunked beside the session
IdleChunks ==
    /\ cb_file = <<>>
    /\ cb_methods = <<>>
    /\ cb_pc = "idle"
    /\ cb_chunks = <<>>

\* no index is being built beside the session
IdleIndex ==
    /\ ix_tree = <<>>
    /\ ix_pc = "off"
    /\ ix_docs = <<>>
    /\ ix_store = <<>>
    /\ ix_prior = <<>>
    /\ ix_builds = 0

IdleIndexer == IdleParser /\ IdleChunks /\ IdleIndex

Init == InitSession /\ IdleRouter /\ IdleQuality /\ IdleIndexer

\* a chat input arrives: route it and reset the turn's names
Submit ==
    /\ pc \in Waiting
    /\ Len(history) < MaxTurns
    /\ \E q \in Questions :
          \E route \in RoutesOf[q] :
             /\ user_query' = q
             /\ primary_route' = route
             /\ final_route' = route
    /\ retrieved_docs' = <<>>
    /\ routing_info' = <<>>
    /\ quality' = Unset
    /\ full_response' = <<>>
    /\ quality_calls' = 0
    /\ primary_count' = 0
    /\ retrievals' = <<>>
    /\ pc' = "routed"
    /\ UNCHANGED <<sessionVars, routerVars, qualityVars,
                   indexerVars>>

\* search the primary source(s)
PrimaryRetrieve ==
    /\ pc = "routed"
    /\ LET wantDocs == primary_route \in {DOCS, BOTH} /\ docs_available
           wantCode == primary_route \in {CODE, BOTH} /\ code_available
       IN  \E docs \in (IF wantDocs THEN Retrieve(DocChunks, DocsK) ELSE {<<>>}),
              code \in (IF wantCode THEN Retrieve(CodeChunks, CodeK) ELSE {<<>>}) :
              /\ retrieved_docs' = Tagged(docs, "docs") \o Tagged(code, "code")
              /\ primary_count' = Len(docs) + Len(code)
              /\ retrievals' =
                    (IF wantDocs THEN <<[phase |-> "primary", corpus |-> "docs",
                                         count |-> Len(docs),
                                         results |-> docs]>>
                                 ELSE <<>>)
                    \o (IF wantCode THEN <<[phase |-> "primary", corpus |-> "code",
                                            count |-> Len(code),
                                            results |-> code]>>
                                    ELSE <<>>)
    /\ pc' = "retrieved"
    /\ UNCHANGED <<sessionVars, user_query, primary_route, final_route,
                   routing_info, quality, full_response, quality_calls,
                   routerVars, qualityVars,
                   indexerVars>>

\* something was retrieved: judge it
QualityCheck ==
    /\ pc = "retrieved"
    /\ retrieved_docs /= <<>>
    /\ \E r \in QualityOf[user_query, Untagged(retrieved_docs)] :
          /\ quality' = r.result
          /\ quality_calls' = quality_calls + r.llm_calls
    /\ pc' = "checked"
    /\ UNCHANGED <<sessionVars, user_query, primary_route, final_route,
                   routing_info, retrieved_docs, full_response, primary_count,
                   retrievals, routerVars, qualityVars,
                   indexerVars>>

\* nothing was retrieved: the quality block is skipped and the turn stops
NoResults ==
    /\ pc = "retrieved"
    /\ retrieved_docs = <<>>
    /\ pc' = AfterGate(retrieved_docs)
    /\ UNCHANGED <<sessionVars, user_query, primary_route, final_route,
                   routing_info, retrieved_docs, quality, full_response,
                   quality_calls, primary_count, retrievals, routerVars,
                   qualityVars, indexerVars>>

\* apply the fallback if the judgment asks for it, then build the prompt
Fallback ==
    /\ pc = "checked"
    /\ LET target == FallbackCorpus(primary_route, quality,
                                    docs_available, code_available)
       IN  \/ /\ target = "code"
              /\ \E code \in Retrieve(CodeChunks, CodeK) :
                    /\ retrieved_docs' = retrieved_docs \o Tagged(code, "code")
                    /\ retrievals' =
                          Append(retrievals, [phase |-> "fallback", corpus |-> "code",
                                              count |-> Len(code),
                                              results |-> code])
              /\ final_route' = DocsPlusCode
              /\ routing_info' = FallbackAddedCode
           \/ /\ target = "docs"
              /\ \E docs \in Retrieve(DocChunks, DocsK) :
                    /\ retrieved_docs' = retrieved_docs \o Tagged(docs, "docs")
                    /\ retrievals' =
                          Append(retrievals, [phase |-> "fallback", corpus |-> "docs",
                                              count |-> Len(docs),
                                              results |-> docs])
              /\ final_route' = CodePlusDocs
              /\ routing_info' = FallbackAddedDocs
           \/ /\ target = "none"
              /\ routing_info' = IF quality = INSUFFICIENT THEN routing_info
                                 ELSE QualityCheckNote(quality)
              /\ UNCHANGED <<retrieved_docs, retrievals, final_route>>
    /\ pc' = AfterGate(retrieved_docs')
    /\ UNCHANGED <<sessionVars, user_query, primary_route, quality,
                   full_response, quality_calls, primary_count, routerVars,
                   qualityVars, indexerVars>>

\* llm.stream yields one more fragment
StreamChunk ==
    /\ pc = "generating"
    /\ Len(full_response) < MaxChunks
    /\ full_response' = Append(full_response, "fragment")
    /\ UNCHANGED <<sessionVars, pc, user_query, primary_route, final_route,
                   routing_info, retrieved_docs, quality, quality_calls,
                   primary_count, retrievals, routerVars, qualityVars,
                   indexerVars>>

\* llm.stream raises: the error is shown and the run stops
StreamError ==
    /\ pc = "generating"
    /\ pc' = "gen_error"
    /\ UNCHANGED <<sessionVars, user_query, primary_route, final_route,
                   routing_info, retrieved_docs, quality, full_response,
                   quality_calls, primary_count, retrievals, routerVars,
                   qualityVars, indexerVars>>

\* the stream ends: show sources and statistics, save the turn
Finish ==
    /\ pc = "generating"
    /\ history' = SaveToHistory(history, HistoryEntry)
    /\ pc' = "done"
    /\ UNCHANGED <<docs_available, code_available, user_query, primary_route,
                   final_route, routing_info, retrieved_docs, quality,
                   full_response, quality_calls, primary_count, retrievals,
                   routerVars, qualityVars,
                   indexerVars>>

Next ==
    \/ Submit
    \/ PrimaryRetrieve
    \/ QualityCheck
    \/ NoResults
    \/ Fallback
    \/ StreamChunk
    \/ StreamError
    \/ Finish

Spec == Init /\ [][Next]_vars

\* the script runs a turn top to bottom: once the results are in, the quality
\* check is made, and once it is made the fallback block is passed
SpecTurn == Spec /\ WF_vars(QualityCheck) /\ WF_vars(Fallback)


\* ---------------------------------- claims about the fallback controller

\* the quality block of the turn is behind: it ran or was skipped
TurnJudged == pc \in {"checked", "generating", "gen_error", "done", "no_info"}

\* the fallback block of the turn is behind
FallbackDone == pc \in {"generating", "gen_error", "done"}

\* the docs that primary retrieval returned
PrimaryDocs == Untagged(SubSeq(retrieved_docs, 1, primary_count))

\* a fallback retrieval was executed in this turn
FallbackExecuted ==
    \E i \in 1..Len(retrievals) : retrievals[i].phase = "fallback"

\* the corpus was retrieved from in this turn
RetrievedFrom(corpus) ==
    \E i \in 1..Len(retrievals) : retrievals[i].corpus = corpus

\* C1, as claimed: the judgment call happens exactly once whenever primary
\* retrieval returned a result, zero times only when it returned none, and
\* never more than once.
C1_OneJudgmentCall_Original ==
    /\ quality_calls <= 1
    /\ TurnJudged =>
          /\ primary_count >= 1 => quality_calls = 1
          /\ quality_calls = 0 => primary_count = 0

\* C1, amended: the judgment call never happens more than once in a turn,
\* fallback included; once the quality block is behind it has happened exactly
\* once if primary retrieval returned a result and the context sample holds at
\* least 100 characters once stripped, and not at all otherwise.
C1_OneJudgmentCall ==
    /\ quality_calls <= 1
    /\ TurnJudged =>
          quality_calls =
             IF primary_count >= 1 /\ SampleTextLen[PrimaryDocs] >= 100
             THEN 1 ELSE 0

\* a turn in which the fallback was applied after one judgment call
C1_Witness ==
    /\ pc = "done"
    /\ FallbackExecuted
    /\ quality_calls = 1

\* C2: a fallback retrieval is executed only if the quality judgment of the
\* turn was INSUFFICIENT and the primary route was DOCS or CODE, and it goes to
\* the corpus the primary route did not select.
C2_FallbackOnlyWhenInsufficient ==
    FallbackExecuted =>
        /\ quality = INSUFFICIENT
        /\ primary_route \in {DOCS, CODE}
        /\ primary_route = DOCS => retrievals[Len(retrievals)].corpus = "code"
        /\ primary_route = CODE => retrievals[Len(retrievals)].corpus = "docs"

\* a fallback from CODE to the documentation corpus
C2_Witness ==
    /\ FallbackExecuted
    /\ primary_route = CODE
    /\ retrievals[Len(retrievals)].corpus = "docs"

\* the case of C3: route DOCS, judged INSUFFICIENT, code corpus available
C3_Case ==
    /\ FallbackDone
    /\ primary_route = DOCS
    /\ quality = INSUFFICIENT
    /\ code_available

\* C3, as claimed: in that case the final route label is "DOCS+CODE" and the
\* final result list holds a (chunk, "code") pair that primary retrieval did
\* not return.
C3_DocsFallback_Original ==
    C3_Case =>
        /\ final_route = <<"D","O","C","S","+","C","O","D","E">>
        /\ \E i \in 1..Len(retrieved_docs) :
              /\ retrieved_docs[i][2] = "code"
              /\ \A j \in 1..primary_count : retrieved_docs[j] /= retrieved_docs[i]

\* C3, amended: in that case the final route label is "DOCS+CODE" and the final
\* result list is the primary list followed by what one retrieval from the code
\* corpus returned, each pair tagged "code" and none of them in the primary
\* list; it holds a new code pair when that retrieval returned a result.
C3_DocsFallback ==
    C3_Case =>
        /\ final_route = <<"D","O","C","S","+","C","O","D","E">>
        /\ retrievals /= <<>>
        /\ LET fb == retrievals[Len(retrievals)]
           IN  /\ fb.phase = "fallback"
               /\ fb.corpus = "code"
               /\ Len(retrieved_docs) = primary_count + fb.count
        /\ \A i \in 1..Len(retrieved_docs) :
              IF i <= primary_count
              THEN retrieved_docs[i][2] = "docs"
              ELSE /\ retrieved_docs[i][2] = "code"
                   /\ retrieved_docs[i][1] \in CodeChunks
                   /\ \A j \in 1..primary_count :
                         retrieved_docs[j] /= retrieved_docs[i]

\* the case happened and the code corpus returned two chunks
C3_Witness ==
    /\ C3_Case
    /\ Len(retrieved_docs) = primary_count + 2
    /\ retrieved_docs[Len(retrieved_docs)][2] = "code"

\* C4: the turn ends in "no relevant information" only with the result list
\* empty after the fallback step: when the primary route is a single corpus,
\* its retrieval returned nothing and the other corpus is available, the other
\* corpus was retrieved from before the failure is declared.
C4_FallbackBeforeFailure ==
    pc = "no_info" =>
        /\ retrieved_docs = <<>>
        /\ (primary_route = DOCS /\ RetrievedFrom("docs") /\ code_available)
              => RetrievedFrom("code")
        /\ (primary_route = CODE /\ RetrievedFrom("code") /\ docs_available)
              => RetrievedFrom("docs")

\* C10: the history is append-only and changes only at the end of a completed
\* turn: the step that completes answer generation appends exactly one entry
\* and keeps every earlier entry; every other step, the stop on zero results
\* and the stop on a generation error included, leaves the history as it was.
C10_HistoryAppendOnly ==
    [][/\ (pc = "generating" /\ pc' = "done") =>
             /\ Len(history') = Len(history) + 1
             /\ SubSeq(history', 1, Len(history)) = history
             /\ history'[Len(history')].user = user_query
       /\ ~(pc = "generating" /\ pc' = "done") => history' = history
       /\ pc' \in {"no_info", "gen_error"} => history' = history]_vars

\* a second turn completed on top of the entry of the first
C10_Witness ==
    /\ pc = "done"
    /\ Len(history) = 2
    /\ history[1].assistant.source_type /= history[2].assistant.source_type

\* C11: in a session started with both the documentation index and the code
\* index unavailable no query is ever accepted: no question is taken, nothing
\* is routed, nothing is retrieved from either corpus, no quality check is
\* made, no answer is generated and nothing is saved.
C11_NoQueryWhenBothUnavailable ==
    (~docs_available /\ ~code_available) =>
        /\ user_query = Unset
        /\ primary_route = Unset
        /\ final_route = Unset
        /\ retrievals = <<>>
        /\ retrieved_docs = <<>>
        /\ quality = Unset
        /\ quality_calls = 0
        /\ full_response = <<>>
        /\ history = <<>>

\* the session that stopped at startup because neither index was there
C11_Witness ==
    /\ ~docs_available
    /\ ~code_available
    /\ pc = "refused"

\* C26: after primary retrieval the result list holds exactly the results of
\* the corpora the primary route indicates (DOCS: the doc corpus, CODE: the
\* code corpus, BOTH: both; a corpus that is not available gives none), each
\* tagged with its corpus of origin, in retrieval order within each corpus,
\* and for BOTH all doc results stand before all code results.
C26_PrimaryResultList ==
    pc \in {"retrieved", "checked"} =>
        LET returned(corpus) ==
                IF \E i \in 1..Len(retrievals) : retrievals[i].corpus = corpus
                THEN retrievals[CHOOSE i \in 1..Len(retrievals) :
                                    retrievals[i].corpus = corpus].results
                ELSE <<>>
            docs == returned("docs")
            code == returned("code")
        IN  /\ (\E i \in 1..Len(retrievals) : retrievals[i].corpus = "docs")
                  <=> (primary_route \in {<<"D","O","C","S">>, <<"B","O","T","H">>}
                       /\ docs_available)
            /\ (\E i \in 1..Len(retrievals) : retrievals[i].corpus = "code")
                  <=> (primary_route \in {<<"C","O","D","E">>, <<"B","O","T","H">>}
                       /\ code_available)
            /\ Len(retrieved_docs) = Len(docs) + Len(code)
            /\ \A i \in 1..Len(docs) :
                  retrieved_docs[i] = <<docs[i], "docs">> /\ docs[i] \in DocChunks
            /\ \A i \in 1..Len(code) :
                  /\ retrieved_docs[Len(docs) + i] = <<code[i], "code">>
                  /\ code[i] \in CodeChunks

\* a BOTH turn with two doc results followed by two code results
C26_Witness ==
    /\ pc = "retrieved"
    /\ primary_route = <<"B","O","T","H">>
    /\ Len(retrieved_docs) = 4
    /\ retrieved_docs[1][1] /= retrieved_docs[2][1]
    /\ retrieved_docs[2][2] = "docs"
    /\ retrieved_docs[3][2] = "code"

\* C27: within one turn each corpus is retrieved from at most once, primary
\* and fallback retrieval together, and a corpus that is unavailable is never
\* retrieved from, whatever the route and the judgment.
C27_EachCorpusAtMostOnce ==
    /\ \A i, j \in 1..Len(retrievals) :
          i /= j => retrievals[i].corpus /= retrievals[j].corpus
    /\ \A i \in 1..Len(retrievals) :
          /\ retrievals[i].corpus = "docs" => docs_available
          /\ retrievals[i].corpus = "code" => code_available

\* a turn that retrieved from one corpus first and from the other as fallback
C27_Witness ==
    /\ Len(retrievals) = 2
    /\ retrievals[1].phase = "primary"
    /\ retrievals[2].phase = "fallback"
    /\ retrievals[1].corpus = "code"
    /\ retrievals[2].corpus = "docs"

\* C28: the final route label of a turn is "DOCS+CODE" or "CODE+DOCS" exactly
\* when a fallback retrieval was executed in the turn, even one that returned
\* no chunk, and is the primary route label in every other turn, the
\* INSUFFICIENT turns with the other corpus unavailable included; the history
\* entry of the turn records that label.
C28_FinalRouteLabel ==
    /\ pc \in {"generating", "gen_error", "done", "no_info"} =>
          /\ (\E i \in 1..Len(retrievals) :
                 retrievals[i].phase = "fallback" /\ retrievals[i].corpus = "code")
                <=> final_route = <<"D","O","C","S","+","C","O","D","E">>
          /\ (\E i \in 1..Len(retrievals) :
                 retrievals[i].phase = "fallback" /\ retrievals[i].corpus = "docs")
                <=> final_route = <<"C","O","D","E","+","D","O","C","S">>
          /\ (\A i \in 1..Len(retrievals) : retrievals[i].phase /= "fallback")
                => /\ final_route = primary_route
                   /\ final_route \in {<<"D","O","C","S">>, <<"C","O","D","E">>,
                                       <<"B","O","T","H">>}
    /\ pc = "done" =>
          history[Len(history)].assistant.source_type = final_route

\* a turn saved with the label CODE+DOCS although the fallback found nothing
C28_Witness ==
    /\ pc = "done"
    /\ Len(retrievals) = 2
    /\ retrievals[2].phase = "fallback"
    /\ retrievals[2].count = 0
    /\ history[Len(history)].assistant.source_type
          = <<"C","O","D","E","+","D","O","C","S">>

\* C29: an INSUFFICIENT judgment never aborts a turn and never discards
\* results: a turn whose primary retrieval is non-empty is judged and then
\* goes on to answer generation, whatever the judgment, and the result list
\* handed to answer generation begins with the primary result list, fallback
\* results being appended after it.
C29_InsufficientNeverAborts ==
    /\ (pc = "retrieved" /\ retrieved_docs /= <<>>) ~> (pc = "generating")
    /\ [][/\ (pc = "retrieved" /\ retrieved_docs /= <<>>) =>
                /\ pc' = "checked"
                /\ retrieved_docs' = retrieved_docs
          /\ pc = "checked" =>
                /\ pc' = "generating"
                /\ Len(retrieved_docs') >= Len(retrieved_docs)
                /\ SubSeq(retrieved_docs', 1, Len(retrieved_docs)) = retrieved_docs
                /\ Len(retrieved_docs) = primary_count
          /\ (pc = "generating" /\ pc' /= "routed") =>
                retrieved_docs' = retrieved_docs
          /\ pc' = "no_info" => retrieved_docs' = <<>> /\ quality' = <<>>]_vars

\* an INSUFFICIENT turn generating from the primary results and fallback ones
C29_Witness ==
    /\ pc = "generating"
    /\ quality = <<"I","N","S","U","F","F","I","C","I","E","N","T">>
    /\ primary_count > 0
    /\ Len(retrieved_docs) > primary_count

\* ------------------------------------------- the router, function by function

\* the questions the router is called with
RouterQuestions == Questions \cup {<<"s","e","t","u","p","?">>}

\* no chat session runs beside the function checks
NoSession ==
    /\ docs_available = FALSE
    /\ code_available = FALSE
    /\ history = <<>>
    /\ pc = "refused"
    /\ user_query = Unset
    /\ primary_route = Unset
    /\ final_route = Unset
    /\ routing_info = <<>>
    /\ retrieved_docs = <<>>
    /\ quality = Unset
    /\ full_response = <<>>
    /\ quality_calls = 0
    /\ primary_count = 0
    /\ retrievals = <<>>

\* the language model answers the router prompt with one fixed response
InitRouter ==
    /\ NoSession
    /\ IdleQuality
    /\ IdleIndexer
    /\ rq_response \in RouterResponses
    /\ rq_log = <<>>

\* one more call of route_query of src/src/app.py
RouteStrict ==
    /\ Len(rq_log) < MaxCalls
    /\ \E q \in RouterQuestions :
          rq_log' = Append(rq_log, [policy |-> "strict", question |-> q,
                                    label |-> route_query(q, rq_response)])
    /\ UNCHANGED <<rq_response, sessionVars, turnVars, qualityVars,
                   indexerVars>>

\* one more call of route_query of src/router_agent.py
RouteSimple ==
    /\ Len(rq_log) < MaxCalls
    /\ \E q \in RouterQuestions :
          rq_log' = Append(rq_log, [policy |-> "simple", question |-> q,
                                    label |-> route_query_simple(q, rq_response)])
    /\ UNCHANGED <<rq_response, sessionVars, turnVars, qualityVars,
                   indexerVars>>

NextRouter == RouteStrict \/ RouteSimple

SpecRouter == InitRouter /\ [][NextRouter]_vars

\* ------------------------------------ the quality check, as a function

\* a context body of n characters, with a blank inside when inner is set
ContextBody(n, inner) ==
    IF inner /\ n >= 3 THEN <<"k", " ">> \o Rep("k", n - 2) ELSE Rep("k", n)

\* contexts around the threshold, with and without surrounding whitespace
Contexts ==
    {Rep(" ", lead) \o ContextBody(n, inner) \o Rep("\n", trail) :
        lead \in 0..MaxPad, trail \in 0..MaxPad, inner \in BOOLEAN,
        n \in {0} \cup ((MinContextLen - MaxDelta)..(MinContextLen + MaxDelta))}

InitQuality ==
    /\ NoSession
    /\ IdleRouter
    /\ IdleIndexer
    /\ cq_context \in Contexts
    /\ cq_response \in QualityResponses
    /\ cq_result = Unset

\* the call check_result_quality(question, context)
CheckQuality ==
    /\ cq_result = Unset
    /\ \E q \in RouterQuestions :
          cq_result' = check_result_quality(q, cq_context, cq_response)
    /\ UNCHANGED <<cq_context, cq_response, sessionVars, turnVars, routerVars,
                   indexerVars>>

NextQuality == CheckQuality

SpecQuality == InitQuality /\ [][NextQuality]_vars


\* ------------------------------------------------- claims about the router

LastRoute == rq_log[Len(rq_log)]

\* C6: strict policy: the label is CODE when the trimmed, upper-cased response
\* contains "CODE" and not "BOTH", BOTH when it contains "BOTH", DOCS in every
\* other case, and so always one of the three labels.
C6_StrictPolicy ==
    \A i \in 1..Len(rq_log) :
        rq_log[i].policy = "strict" =>
            LET r == Upper(Strip(rq_response))
                label == rq_log[i].label
            IN  /\ (Contains(r, CODE) /\ ~Contains(r, BOTH)) => label = CODE
                /\ Contains(r, BOTH) => label = BOTH
                /\ (~Contains(r, CODE) /\ ~Contains(r, BOTH)) => label = DOCS
                /\ label \in {DOCS, CODE, BOTH}

\* a strict call on a response that holds both "CODE" and "BOTH"
C6_Witness ==
    /\ rq_log /= <<>>
    /\ LastRoute.policy = "strict"
    /\ Contains(Upper(Strip(rq_response)), CODE)
    /\ Contains(Upper(Strip(rq_response)), BOTH)
    /\ LastRoute.label = BOTH

\* C7: simple policy: the trimmed, upper-cased response is returned unchanged
\* when it is exactly DOCS, CODE or BOTH; every other response, the empty one
\* and one that merely contains a label included, is mapped to BOTH.
C7_SimplePolicy ==
    \A i \in 1..Len(rq_log) :
        rq_log[i].policy = "simple" =>
            LET r == Upper(Strip(rq_response))
                label == rq_log[i].label
            IN  /\ (r = DOCS \/ r = CODE \/ r = BOTH) => label = r
                /\ ~(r = DOCS \/ r = CODE \/ r = BOTH) => label = BOTH

\* a simple call on a response that contains CODE without being CODE
C7_Witness ==
    /\ rq_log /= <<>>
    /\ LastRoute.policy = "simple"
    /\ Contains(Upper(Strip(rq_response)), CODE)
    /\ Upper(Strip(rq_response)) /= CODE
    /\ ~Contains(Upper(Strip(rq_response)), BOTH)
    /\ LastRoute.label = BOTH

\* C8: router determinism: any two calls of one policy that received the same
\* model response returned the same label, whatever their questions and
\* whatever was called before them.
C8_RouterDeterminism ==
    \A i, j \in 1..Len(rq_log) :
        rq_log[i].policy = rq_log[j].policy => rq_log[i].label = rq_log[j].label

\* two calls of the strict policy with different questions, the second after
\* another call
C8_Witness ==
    /\ Len(rq_log) >= 2
    /\ rq_log[1].policy = "strict"
    /\ rq_log[2].policy = "strict"
    /\ rq_log[1].question /= rq_log[2].question
    /\ Contains(rq_log[2].question, CODE)
    /\ rq_log[2].label = DOCS

\* ------------------------------------------ claims about the quality check

\* C5: check_result_quality returns INSUFFICIENT without invoking the language
\* model whenever the context is empty or shorter than 100 characters once
\* stripped; the model is invoked only for contexts at or above the threshold.
C5_QualityShortCircuit ==
    cq_result /= Unset =>
        /\ (cq_context = <<>> \/ Len(Strip(cq_context)) < 100) =>
              (cq_result.result = INSUFFICIENT /\ cq_result.llm_calls = 0)
        /\ cq_result.llm_calls >= 1 => Len(Strip(cq_context)) >= 100

\* a context of 100 characters or more that is too short once stripped
C5_Witness ==
    /\ cq_result /= Unset
    /\ Len(cq_context) >= 100
    /\ Len(Strip(cq_context)) < 100
    /\ cq_result.llm_calls = 0
    /\ cq_result.result = INSUFFICIENT

\* C9: a malformed quality response is never propagated: the result is
\* SUFFICIENT only when the trimmed, upper-cased response is exactly
\* SUFFICIENT, INSUFFICIENT for every other response, and so always one of
\* the two labels.
C9_QualityLabels ==
    cq_result /= Unset =>
        /\ cq_result.result \in {SUFFICIENT, INSUFFICIENT}
        /\ cq_result.result = SUFFICIENT =>
              Upper(Strip(cq_response)) = SUFFICIENT
        /\ (cq_result.llm_calls = 1 /\ Upper(Strip(cq_response)) /= SUFFICIENT) =>
              cq_result.result = INSUFFICIENT

\* the model was asked and answered with neither label
C9_Witness ==
    /\ cq_result /= Unset
    /\ cq_result.llm_calls = 1
    /\ Contains(Upper(Strip(cq_response)), SUFFICIENT)
    /\ Upper(Strip(cq_response)) \notin {SUFFICIENT, INSUFFICIENT}
    /\ cq_result.result = INSUFFICIENT

\* ------------------------------------------------------- the Java parser
\* Java text is a sequence of tokens: the regular expressions of the parser
\* separate every two elements by \s+ or \s*, so a token stands for the
\* element and the white space around it.  "\n" is the end of a line.

\* the tokens that are not made of word characters
Punctuation == {"{", "}", "(", ")", ";", ",", "//", "/*", "*/", "\n"}

\* the type tokens with a suffix, and what is left of each before [ or <
SuffixedTypes == [t \in {"Bar[]", "List<Bar>"} |->
                     IF t = "Bar[]" THEN "Bar" ELSE "List"]

\* \w+
IsWord(t) == t \notin Punctuation /\ t \notin DOMAIN SuffixedTypes

\* (\w+|\w+\[\]|\w+<[^>]+>)
IsTypeToken(t) == IsWord(t) \/ t \in DOMAIN SuffixedTypes

\* the return type compared with its suffix left on
BaseType_keeps_suffix(t) == t

\* return_type.split('[')[0].split('<')[0]
BaseType(t) == IF t \in DOMAIN SuffixedTypes THEN SuffixedTypes[t] ELSE t

\* the first index from i on where text holds token t, 0 if none
RECURSIVE IndexFrom(_, _, _)
IndexFrom(text, t, i) ==
    IF i > Len(text) THEN 0
    ELSE IF text[i] = t THEN i
    ELSE IndexFrom(text, t, i + 1)

\* re.sub(r'//.*?$', '', code, flags=re.MULTILINE): from // to the end of
\* the line, the line end kept
RECURSIVE RemoveLineComments(_, _)
RemoveLineComments(code, i) ==
    IF i > Len(code) THEN <<>>
    ELSE IF code[i] = "//"
         THEN LET e == IndexFrom(code, "\n", i)
              IN  IF e = 0 THEN <<>> ELSE RemoveLineComments(code, e)
         ELSE <<code[i]>> \o RemoveLineComments(code, i + 1)

\* re.sub(r'/\*.*?\*/', '', code, flags=re.DOTALL): from /* to the first */
RECURSIVE RemoveBlockComments(_, _)
RemoveBlockComments(code, i) ==
    IF i > Len(code) THEN <<>>
    ELSE IF code[i] = "/*" /\ IndexFrom(code, "*/", i + 1) /= 0
         THEN RemoveBlockComments(code, IndexFrom(code, "*/", i + 1) + 1)
         ELSE <<code[i]>> \o RemoveBlockComments(code, i + 1)

\* the block comments are removed first, then the line comments
_remove_comments(code) ==
    RemoveLineComments(RemoveBlockComments(code, 1), 1)

\* the text as the patterns see it: line ends are white space
IsNotLineEnd(t) == t /= "\n"

Unspaced(text) == SelectSeq(text, IsNotLineEnd)

\* re.search(r'package\s+([\w.]+);', self.code): the name of the first
\* package statement of the text as given, "" when there is none
RECURSIVE PackageFrom(_, _)
PackageFrom(text, i) ==
    IF i + 2 > Len(text) THEN ""
    ELSE IF text[i] = "package" /\ IsWord(text[i + 1]) /\ text[i + 2] = ";"
    THEN text[i + 1]
    ELSE PackageFrom(text, i + 1)

_extract_package(code) == PackageFrom(Unspaced(code), 1)

\* the index at which the brace count opened at start_pos is back to 0,
\* the end of the text when it never is
RECURSIVE BlockEnd(_, _, _)
BlockEnd(text, i, brace_count) ==
    IF i > Len(text) THEN Len(text)
    ELSE IF text[i] = "{" THEN BlockEnd(text, i + 1, brace_count + 1)
    ELSE IF text[i] = "}"
         THEN IF brace_count - 1 = 0 THEN i
              ELSE BlockEnd(text, i + 1, brace_count - 1)
    ELSE BlockEnd(text, i + 1, brace_count)

\* the block ended at the first closing brace after start_pos
_extract_block_first_close(text, start_pos) ==
    SubSeq(text, start_pos,
           IF IndexFrom(text, "}", start_pos) = 0 THEN Len(text)
           ELSE IndexFrom(text, "}", start_pos))

_extract_block(text, start_pos) ==
    SubSeq(text, start_pos, BlockEnd(text, start_pos, 0))

\* [\w,\s]+ taken greedily from i: the index after the last name or comma
RECURSIVE NameListEnd(_, _)
NameListEnd(text, i) ==
    IF i <= Len(text) /\ (IsWord(text[i]) \/ text[i] = ",")
    THEN NameListEnd(text, i + 1)
    ELSE i

\* class_pattern tried on the class keyword at i: the index of the opening
\* brace that ends the match, 0 when the pattern does not match there
ClassHeaderBrace(text, i) ==
    IF i + 2 > Len(text) \/ text[i] /= "class" \/ ~IsWord(text[i + 1])
    THEN 0
    ELSE LET a == i + 2
             b == IF a + 1 <= Len(text) /\ text[a] = "extends"
                     /\ IsWord(text[a + 1])
                  THEN a + 2 ELSE a
             c == IF b + 1 <= Len(text) /\ text[b] = "implements"
                     /\ NameListEnd(text, b + 1) > b + 1
                  THEN NameListEnd(text, b + 1) ELSE b
         IN  IF c <= Len(text) /\ text[c] = "{" THEN c ELSE 0

\* re.finditer(class_pattern, clean_code): every match over the whole text,
\* left to right, the next search starting after the previous match
RECURSIVE ClassMatches(_, _)
ClassMatches(text, i) ==
    IF i > Len(text) THEN <<>>
    ELSE LET b == ClassHeaderBrace(text, i)
         IN  IF b = 0 THEN ClassMatches(text, i + 1)
             ELSE <<[name |-> text[i + 1], start_pos |-> b]>>
                     \o ClassMatches(text, b + 1)

\* method_pattern tried with its return-type group on the token at j: the
\* index of the opening brace that ends the match, 0 when it does not match.
\* The optional annotations and modifiers before the return type only move
\* the start of the match: the two groups are the two tokens before "(".
MethodBrace(text, j) ==
    IF j + 3 > Len(text) \/ ~IsTypeToken(text[j]) \/ ~IsWord(text[j + 1])
       \/ text[j + 2] /= "("
    THEN 0
    ELSE LET p == IndexFrom(text, ")", j + 3)
             q == IF p /= 0 /\ p + 2 <= Len(text) /\ text[p + 1] = "throws"
                     /\ text[p + 2] /= "{"
                  THEN IndexFrom(text, "{", p + 2)
                  ELSE IF p = 0 THEN 0 ELSE p + 1
         IN  IF q /= 0 /\ q <= Len(text) /\ text[q] = "{" THEN q ELSE 0

\* constructor_name = return_type.split('[')[0].split('<')[0]
\* is_constructor = method_name == constructor_name
\* JavaMethod(name, return_type if not is_constructor else "void", ...)
JavaMethod(return_type, method_name) ==
    LET is_constructor == method_name = BaseType(return_type)
    IN  [name |-> method_name,
         return_type |-> IF is_constructor THEN "void" ELSE return_type,
         is_constructor |-> is_constructor]

\* re.finditer(method_pattern, class_block) and one JavaMethod per match
RECURSIVE MethodMatches(_, _)
MethodMatches(class_block, j) ==
    IF j > Len(class_block) THEN <<>>
    ELSE LET b == MethodBrace(class_block, j)
         IN  IF b = 0 THEN MethodMatches(class_block, j + 1)
             ELSE <<JavaMethod(class_block[j], class_block[j + 1])>>
                     \o MethodMatches(class_block, b + 1)

_extract_methods(class_block) == MethodMatches(class_block, 1)

\* JavaParser.parse: the package name read from the text as given, then
\* one JavaClass per match of class_pattern in the text without comments
parse(java_code) ==
    LET package_name == _extract_package(java_code)
        clean_code == Unspaced(_remove_comments(java_code))
        found == ClassMatches(clean_code, 1)
    IN  [k \in 1..Len(found) |->
            [name |-> found[k].name,
             package |-> package_name,
             methods |-> _extract_methods(
                            _extract_block(clean_code, found[k].start_pos))]]

\* ---------------------------------------- the Java parser, file by file

\* the declarations a file under test is written from: a class opened, the
\* class closed, a constructor of the class around it, four methods, and a
\* line comment that quotes a package statement and a class header
OpenItems == {"class Foo", "class Bar"}

MemberItems ==
    {"constructor", "void run", "Bar Bar", "Bar[] Bar", "List<Bar> run"}

JavaItems == OpenItems \cup MemberItems \cup {"end", "comment"}

\* the name of the class an open item declares
ClassNameOf(item) == IF item = "class Foo" THEN "Foo" ELSE "Bar"

\* every class is closed, members stand inside a class, and a nested class
\* does not take the name of a class around it
RECURSIVE WellNested(_, _, _)
WellNested(items, i, enclosing) ==
    IF i > Len(items) THEN enclosing = <<>>
    ELSE IF items[i] \in OpenItems
         THEN /\ \A k \in 1..Len(enclosing) : enclosing[k] /= ClassNameOf(items[i])
              /\ WellNested(items, i + 1,
                            Append(enclosing, ClassNameOf(items[i])))
    ELSE IF items[i] = "end"
         THEN /\ enclosing /= <<>>
              /\ WellNested(items, i + 1,
                            SubSeq(enclosing, 1, Len(enclosing) - 1))
    ELSE IF items[i] \in MemberItems
         THEN enclosing /= <<>> /\ WellNested(items, i + 1, enclosing)
    ELSE WellNested(items, i + 1, enclosing)

JavaFiles ==
    {items \in SeqsUpTo(JavaItems, MaxItems) : WellNested(items, 1, <<>>)}

\* the text of the file, enclosing the names of the classes around item i
RECURSIVE JavaText(_, _, _)
JavaText(items, i, enclosing) ==
    IF i > Len(items) THEN <<>>
    ELSE LET item == items[i]
         IN  IF item \in OpenItems
             THEN <<"public", "class", ClassNameOf(item), "{", "\n">>
                     \o JavaText(items, i + 1,
                                 Append(enclosing, ClassNameOf(item)))
             ELSE IF item = "end"
             THEN <<"}", "\n">>
                     \o JavaText(items, i + 1,
                                 SubSeq(enclosing, 1, Len(enclosing) - 1))
             ELSE IF item = "constructor"
             THEN <<"public", enclosing[Len(enclosing)], "(", ")", "{", "}",
                    "\n">> \o JavaText(items, i + 1, enclosing)
             ELSE IF item = "void run"
             THEN <<"public", "void", "run", "(", ")", "{", "}", "\n">>
                     \o JavaText(items, i + 1, enclosing)
             ELSE IF item = "Bar Bar"
             THEN <<"Bar", "Bar", "(", ")", "{", "}", "\n">>
                     \o JavaText(items, i + 1, enclosing)
             ELSE IF item = "Bar[] Bar"
             THEN <<"public", "Bar[]", "Bar", "(", ")", "{", "}", "\n">>
                     \o JavaText(items, i + 1, enclosing)
             ELSE IF item = "List<Bar> run"
             THEN <<"public", "List<Bar>", "run", "(", ")", "{", "}", "\n">>
                     \o JavaText(items, i + 1, enclosing)
             ELSE <<"//", "package", "q", ";", "class", "Baz", "{", "\n">>
                     \o JavaText(items, i + 1, enclosing)

\* the number of classes open before item i
DepthAt(items, i) ==
    Cardinality({j \in 1..(i - 1) : items[j] \in OpenItems})
    - Cardinality({j \in 1..(i - 1) : items[j] = "end"})

\* the positions of the class declarations, in the order of the text
OpenPositions(items) ==
    LET opens == {j \in 1..Len(items) : items[j] \in OpenItems}
    IN  [k \in 1..Cardinality(opens) |->
            CHOOSE j \in opens :
                Cardinality({h \in opens : h < j}) = k - 1]

\* the position of the "end" that closes the class opened at i
ClosePosition(items, i) ==
    MinOf({j \in (i + 1)..Len(items) :
              items[j] = "end" /\ DepthAt(items, j) = DepthAt(items, i) + 1})

\* the methods and constructors declared by the class opened at i itself
OwnMembers(items, i) ==
    {j \in (i + 1)..(ClosePosition(items, i) - 1) :
        items[j] \in MemberItems /\ DepthAt(items, j) = DepthAt(items, i) + 1}

\* the classes declared at the top level of the file
TopLevelClasses(items) ==
    {j \in 1..Len(items) : items[j] \in OpenItems /\ DepthAt(items, j) = 0}

InitParser ==
    /\ NoSession
    /\ IdleRouter
    /\ IdleQuality
    /\ IdleChunks
    /\ IdleIndex
    /\ jp_items \in JavaFiles
    /\ jp_code = JavaText(jp_items, 1, <<>>)
    /\ jp_pc = "ready"
    /\ jp_classes = <<>>
    /\ jp_block = <<>>

\* the call JavaParser().parse(java_code)
Parse ==
    /\ jp_pc = "ready"
    /\ jp_classes' = parse(jp_code)
    /\ jp_pc' = "parsed"
    /\ UNCHANGED <<jp_items, jp_code, jp_block, sessionVars, turnVars,
                   routerVars, qualityVars, chunkVars, indexVars>>

\* a call _extract_block(text, start_pos), start_pos at an opening brace:
\* the text is the text without comments, whole or cut before one of its
\* closing braces
ExtractBlock ==
    /\ jp_pc = "ready"
    /\ \E clean_code \in {Unspaced(_remove_comments(jp_code))} :
          \E start_pos \in {i \in 1..Len(clean_code) : clean_code[i] = "{"} :
              \E n \in {Len(clean_code)}
                        \cup {i \in start_pos..(Len(clean_code) - 1) :
                                  clean_code[i + 1] = "}"} :
                  jp_block' =
                      [text |-> SubSeq(clean_code, 1, n),
                       start_pos |-> start_pos,
                       block |-> _extract_block(SubSeq(clean_code, 1, n),
                                                start_pos)]
    /\ jp_pc' = "extracted"
    /\ UNCHANGED <<jp_items, jp_code, jp_classes, sessionVars, turnVars,
                   routerVars, qualityVars, chunkVars, indexVars>>

NextParser == Parse \/ ExtractBlock

SpecParser == InitParser /\ [][NextParser]_vars

\* C12: for a Java source with N top-level classes JavaParser.parse returns
\* exactly N JavaClass records; a class nested in another class does not
\* produce a record of its own.
C12_OneRecordPerTopLevelClass ==
    jp_pc = "parsed" =>
        Len(jp_classes) = Cardinality(TopLevelClasses(jp_items))

\* C13: the method list of every class record has as many entries as the
\* class itself declares methods and constructors; the methods of a nested
\* class are not counted in the class around it.
C13_OwnMethodsOnly ==
    jp_pc = "parsed" =>
        \A k \in 1..Len(jp_classes) :
            k <= Len(OpenPositions(jp_items)) =>
                Len(jp_classes[k].methods) =
                    Cardinality(OwnMembers(jp_items,
                                           OpenPositions(jp_items)[k]))

\* C14: a method record is flagged is_constructor exactly when its name is
\* the name of the class that declares it.
C14_ConstructorIffClassName ==
    jp_pc = "parsed" =>
        \A k \in 1..Len(jp_classes) :
            \A h \in 1..Len(jp_classes[k].methods) :
                jp_classes[k].methods[h].is_constructor
                    <=> (jp_classes[k].methods[h].name = jp_classes[k].name)

\* C23: comment stripping precedes all extraction: text that stands only
\* inside a comment contributes to no returned value, neither to the package
\* name nor to the class list nor to the method lists, so the parser returns
\* for a file what it returns for the same file with its comments left out.
C23_CommentsNeverContribute ==
    jp_pc = "parsed" =>
        LET NotComment(item) == item /= "comment"
            uncommented == SelectSeq(jp_items, NotComment)
        IN  /\ jp_classes = parse(JavaText(uncommented, 1, <<>>))
            /\ \A k \in 1..Len(jp_classes) :
                  jp_classes[k].package = "" /\ jp_classes[k].name /= "Baz"

\* C24: _extract_methods flags a matched signature as a constructor exactly
\* when its name equals its return-type token with any [] or <...> suffix
\* removed; a record flagged is_constructor has return_type "void", any other
\* record keeps the matched return-type token.
C24_ConstructorByReturnType ==
    jp_pc = "parsed" =>
        LET opens == OpenPositions(jp_items)
            \* the class declared around the member at j
            around(j) ==
                CHOOSE i \in 1..(j - 1) :
                    /\ jp_items[i] \in OpenItems
                    /\ ClosePosition(jp_items, i) > j
                    /\ \A h \in (i + 1)..(j - 1) :
                          ~(jp_items[h] \in OpenItems
                            /\ ClosePosition(jp_items, h) > j)
            \* the token before the name in the declaration at j
            token(j) ==
                IF jp_items[j] = "constructor" THEN "public"
                ELSE IF jp_items[j] = "void run" THEN "void"
                ELSE IF jp_items[j] = "Bar Bar" THEN "Bar"
                ELSE IF jp_items[j] = "Bar[] Bar" THEN "Bar[]"
                ELSE "List<Bar>"
            name(j) ==
                IF jp_items[j] = "constructor"
                THEN ClassNameOf(jp_items[around(j)])
                ELSE IF jp_items[j] \in {"void run", "List<Bar> run"} THEN "run"
                ELSE "Bar"
            unsuffixed(t) ==
                IF t = "Bar[]" THEN "Bar"
                ELSE IF t = "List<Bar>" THEN "List"
                ELSE t
        IN  /\ Len(jp_classes) = Len(opens)
            /\ \A k \in 1..Len(opens) :
                  LET inside == {j \in (opens[k] + 1)
                                       ..(ClosePosition(jp_items, opens[k]) - 1) :
                                    jp_items[j] \in MemberItems}
                      methods == jp_classes[k].methods
                  IN  /\ Len(methods) = Cardinality(inside)
                      /\ \A j \in inside :
                            LET m == methods[Cardinality({h \in inside : h <= j})]
                            IN  /\ m.name = name(j)
                                /\ m.is_constructor
                                      <=> (name(j) = unsuffixed(token(j)))
                                /\ m.is_constructor => m.return_type = "void"
                                /\ ~m.is_constructor => m.return_type = token(j)

\* a class with the methods `Bar[] Bar()` and `List<Bar> run()`: the first
\* is flagged as a constructor, the second keeps its return type
C24_Witness ==
    /\ jp_pc = "parsed"
    /\ jp_items = <<"class Foo", "Bar[] Bar", "List<Bar> run", "end">>
    /\ jp_classes[1].methods[1].is_constructor
    /\ jp_classes[1].methods[1].return_type = "void"
    /\ ~jp_classes[1].methods[2].is_constructor
    /\ jp_classes[1].methods[2].return_type = "List<Bar>"

\* C25: _extract_block, started at an opening brace, terminates and returns
\* the text from that brace up to and including the first closing brace at
\* which the running depth of braces is back to zero, so that nested blocks
\* are contained whole; when the depth is never back to zero it returns the
\* text from the start position to the end of the input.
C25_BalancedBlock ==
    jp_pc = "extracted" =>
        LET text == jp_block.text
            start_pos == jp_block.start_pos
            depth(i) ==
                Cardinality({h \in start_pos..i : text[h] = "{"})
                - Cardinality({h \in start_pos..i : text[h] = "}"})
            closing == {i \in start_pos..Len(text) :
                           text[i] = "}" /\ depth(i) = 0}
        IN  /\ text[start_pos] = "{"
            /\ jp_block.block =
                  IF closing = {}
                  THEN [i \in 1..(Len(text) - start_pos + 1) |->
                           text[start_pos + i - 1]]
                  ELSE [i \in 1..(MinOf(closing) - start_pos + 1) |->
                           text[start_pos + i - 1]]
            /\ closing /= {} =>
                  \A i \in start_pos..(MinOf(closing) - 1) : depth(i) > 0

\* the block of a class that holds a nested block, taken whole
C25_Witness ==
    /\ jp_pc = "extracted"
    /\ jp_block.start_pos = 4
    /\ Len(SelectSeq(jp_block.block, LAMBDA t : t = "{")) = 2
    /\ Len(SelectSeq(jp_block.block, LAMBDA t : t = "}")) = 2
    /\ Len(jp_block.block) < Len(jp_block.text) - 3

\* ------------------------------------------------------ the chunk builder

\* METHODS_PER_CHUNK = 20
METHODS_PER_CHUNK == 20

\* sorted(element_counts.items(), ...)[:20]
StructureListLimit == 20

\* structure[...][:5] in the summary
SummaryListLimit == 5

\* structure.get("elements", [])[:10]
XmlChunkLimit == 10

\* the names methods are sorted by, in the order of Python's string comparison
NameOrder ==
    <<"ClassA", "ClassB">> \o
    <<"m01", "m02", "m03", "m04", "m05", "m06", "m07", "m08", "m09",
      "m10", "m11", "m12", "m13", "m14", "m15", "m16", "m17", "m18",
      "m19", "m20", "m21", "m22", "m23", "m24", "m25", "m26", "m27",
      "m28", "m29", "m30", "m31", "m32", "m33", "m34", "m35", "m36",
      "m37", "m38", "m39", "m40", "m41", "m42", "m43", "m44", "m45",
      "m46", "m47", "m48">>

\* list.sort(key=lambda m: m.name), the names from NameOrder[r] on; the sort
\* is stable
SortByName_unsorted(methods, r) == methods

RECURSIVE SortByName(_, _)
SortByName(methods, r) ==
    IF r > Len(NameOrder) THEN <<>>
    ELSE LET Named(m) == m.name = NameOrder[r]
         IN  SelectSeq(methods, Named) \o SortByName(methods, r + 1)

IsConstructor(m) == m.is_constructor

IsRegular(m) == ~m.is_constructor

\* the last partial group of methods left out
format_methods_for_chunks_full_groups_only(java_class_dict) ==
    LET regular_methods ==
            SortByName(SelectSeq(java_class_dict.methods, IsRegular), 1)
        constructors ==
            SortByName(SelectSeq(java_class_dict.methods, IsConstructor), 1)
        n == Len(regular_methods)
    IN  <<[title |-> "header",
           class_name |-> java_class_dict.name,
           total_methods |-> n,
           total_constructors |-> Len(constructors),
           constructors |-> [i \in 1..Len(constructors) |->
                                [no |-> i, name |-> constructors[i].name]]]>>
        \o [k \in 1..(n \div METHODS_PER_CHUNK) |->
              LET group_idx == (k - 1) * METHODS_PER_CHUNK
              IN  [title |-> "methods",
                   class_name |-> java_class_dict.name,
                   first |-> group_idx + 1,
                   last |-> group_idx + METHODS_PER_CHUNK,
                   of |-> n,
                   lines |-> [j \in 1..METHODS_PER_CHUNK |->
                       [no |-> group_idx + j,
                        return_type |-> regular_methods[group_idx + j].return_type,
                        name |-> regular_methods[group_idx + j].name]]]]

\* format_methods_for_chunks: the header chunk with the constructors, then
\* one chunk per group of METHODS_PER_CHUNK regular methods
format_methods_for_chunks(java_class_dict) ==
    LET regular_methods ==
            SortByName(SelectSeq(java_class_dict.methods, IsRegular), 1)
        constructors ==
            SortByName(SelectSeq(java_class_dict.methods, IsConstructor), 1)
        n == Len(regular_methods)
        \* range(0, len(regular_methods), METHODS_PER_CHUNK)
        starts == {g \in 0..(n - 1) : g % METHODS_PER_CHUNK = 0}
    IN  <<[title |-> "header",
           class_name |-> java_class_dict.name,
           total_methods |-> n,
           total_constructors |-> Len(constructors),
           constructors |-> [i \in 1..Len(constructors) |->
                                [no |-> i, name |-> constructors[i].name]]]>>
        \o [k \in 1..Cardinality(starts) |->
              LET group_idx == (k - 1) * METHODS_PER_CHUNK
                  last == IF group_idx + METHODS_PER_CHUNK < n
                          THEN group_idx + METHODS_PER_CHUNK ELSE n
              IN  [title |-> "methods",
                   class_name |-> java_class_dict.name,
                   first |-> group_idx + 1,
                   last |-> last,
                   of |-> n,
                   lines |-> [j \in 1..(last - group_idx) |->
                       [no |-> group_idx + j,
                        return_type |-> regular_methods[group_idx + j].return_type,
                        name |-> regular_methods[group_idx + j].name]]]]

\* sorted(element_counts.items(), key=lambda x: x[1], reverse=True), the
\* counts from c down; the sort is stable
RECURSIVE SortByCount(_, _)
SortByCount(elements, c) ==
    IF c <= 0 THEN <<>>
    ELSE LET Counted(e) == e.count = c
         IN  SelectSeq(elements, Counted) \o SortByCount(elements, c - 1)

\* extract_code_structure: the structure of the file, the empty structure
\* when the parser of the language raises
extract_code_structure(file) ==
    LET tags == [i \in 1..Len(file.tags) |-> [name |-> i, count |-> file.tags[i]]]
    IN  [classes |->
            IF file.language = "java" /\ ~file.fails
            THEN [k \in 1..Len(file.classes) |->
                    [name |-> file.classes[k].name,
                     methods |-> file.classes[k].methods,
                     method_count |->
                        Len(SelectSeq(file.classes[k].methods, IsRegular)),
                     constructor_count |->
                        Len(SelectSeq(file.classes[k].methods, IsConstructor))]]
            ELSE <<>>,
         elements |->
            IF file.language = "xml" /\ ~file.fails
            THEN Prefix(SortByCount(tags, Len(tags)), StructureListLimit)
            ELSE <<>>,
         functions |->
            IF file.language = "py" /\ ~file.fails THEN tags ELSE <<>>,
         error |-> file.fails]

\* Path(file_path): the path of the file under test
FilePath(file) == [stem |-> "File", suffix |-> file.language]

\* the source recorded without the extension of the file
Document_source_without_suffix(file, type, page_content, more) ==
    [page_content |-> page_content,
     metadata |-> [source |-> [stem |-> "File", suffix |-> ""],
                   language |-> file.language, type |-> type, more |-> more]]

\* Document(page_content=..., metadata={'source', 'language', 'type', ...})
Document(file, type, page_content, more) ==
    [page_content |-> page_content,
     metadata |-> [source |-> FilePath(file), language |-> file.language,
                   type |-> type, more |-> more]]

\* _create_summary: the file, the language and the names found
_create_summary(file, structure) ==
    [file_path |-> FilePath(file),
     language |-> file.language,
     classes |->
        LET class_names == [k \in 1..Len(structure.classes) |->
                               structure.classes[k].name]
        IN  IF file.language = "py" THEN Prefix(class_names, SummaryListLimit)
            ELSE class_names,
     elements |-> Prefix([k \in 1..Len(structure.elements) |->
                             structure.elements[k].name], SummaryListLimit),
     functions |-> Prefix([k \in 1..Len(structure.functions) |->
                              structure.functions[k].name], SummaryListLimit)]

\* the class-info chunk made only for a class that has methods
JavaClassChunks_skips_empty(file, cls_info) ==
    IF cls_info.methods = <<>> THEN <<>>
    ELSE LET method_chunks == format_methods_for_chunks(cls_info)
         IN  [i \in 1..Len(method_chunks) |->
                 Document(file, "java_class_methods", method_chunks[i],
                          [class_name |-> cls_info.name,
                           method_count |-> cls_info.method_count,
                           constructor_count |-> cls_info.constructor_count,
                           chunk_index |-> i - 1])]
             \o <<Document(file, "java_class_info",
                           [class_name |-> cls_info.name,
                            methods |-> cls_info.method_count,
                            constructors |-> cls_info.constructor_count],
                           [class_name |-> cls_info.name])>>

\* the chunks of one Java class: the method chunks when the class has
\* methods, then its class-info chunk
JavaClassChunks(file, cls_info) ==
    LET method_chunks == IF cls_info.methods /= <<>>
                         THEN format_methods_for_chunks(cls_info) ELSE <<>>
    IN  [i \in 1..Len(method_chunks) |->
            Document(file, "java_class_methods", method_chunks[i],
                     [class_name |-> cls_info.name,
                      method_count |-> cls_info.method_count,
                      constructor_count |-> cls_info.constructor_count,
                      chunk_index |-> i - 1])]
        \o <<Document(file, "java_class_info",
                      [class_name |-> cls_info.name,
                       methods |-> cls_info.method_count,
                       constructors |-> cls_info.constructor_count],
                      [class_name |-> cls_info.name])>>

\* the chunks of a file whose every Java class yields its class-info chunk only
_create_element_chunks_info_only(file, structure) ==
    [k \in 1..Len(structure.classes) |->
        Document(file, "java_class_info",
                 [class_name |-> structure.classes[k].name,
                  methods |-> structure.classes[k].method_count,
                  constructors |-> structure.classes[k].constructor_count],
                 [class_name |-> structure.classes[k].name])]

_create_element_chunks(file, structure) ==
    IF file.language = "java"
    THEN Flatten([k \in 1..Len(structure.classes) |->
                     JavaClassChunks(file, structure.classes[k])])
    ELSE IF file.language = "xml"
    THEN LET shown == Prefix(structure.elements, XmlChunkLimit)
         IN  [k \in 1..Len(shown) |->
                 Document(file, "xml_element",
                          [element |-> shown[k].name,
                           occurrences |-> shown[k].count],
                          [element_name |-> shown[k].name,
                           element_count |-> shown[k].count])]
    ELSE <<>>

\* _create_code_chunks: one chunk per piece splitter.split_text(code) returns
_create_code_chunks(file) ==
    [i \in 1..file.pieces |->
        Document(file, "code_chunk", [piece |-> i], <<>>)]

\* the code chunks put before the element chunks
create_enhanced_chunks_code_first(file) ==
    LET structure == extract_code_structure(file)
    IN  <<Document(file, "semantic_summary", _create_summary(file, structure),
                   [structure_type |-> file.language])>>
        \o _create_code_chunks(file)
        \o _create_element_chunks(file, structure)

\* a file whose parser raised left out of the index
create_enhanced_chunks_drops_failed(file) ==
    LET structure == extract_code_structure(file)
    IN  IF structure.error THEN <<>>
        ELSE <<Document(file, "semantic_summary",
                        _create_summary(file, structure),
                        [structure_type |-> file.language])>>
             \o _create_element_chunks(file, structure)
             \o _create_code_chunks(file)

\* create_enhanced_chunks: the summary, the element chunks, the code chunks
create_enhanced_chunks(file) ==
    LET structure == extract_code_structure(file)
    IN  <<Document(file, "semantic_summary", _create_summary(file, structure),
                   [structure_type |-> file.language])>>
        \o _create_element_chunks(file, structure)
        \o _create_code_chunks(file)

\* ------------------------------------- the chunk builder, file by file

\* the JavaClass record of a class with the given numbers of constructors
\* and regular methods, the methods in descending order of name
JavaClassInput(name, regular, ctors) ==
    [name |-> name,
     methods |-> [i \in 1..ctors |-> JavaMethod(name, name)]
                 \o [i \in 1..regular |->
                        JavaMethod("void", NameOrder[2 + regular + 1 - i])]]

\* the names of the classes of a file of many classes
ClassNames ==
    <<"ClassA", "ClassB", "ClassC", "ClassD", "ClassE", "ClassF", "ClassG",
      "ClassH">>

\* what JavaParser.parse returns for the Java files under test: no class, one
\* class, one class and a small second class, or many classes without members
JavaInputs ==
    {<<>>}
    \cup {[k \in 1..n |-> JavaClassInput(ClassNames[k], 0, 0)] :
             n \in 3..MaxClasses}
    \cup {<<JavaClassInput("ClassA", n, c)>> :
             n \in 0..MaxMethods, c \in 0..MaxCtors}
    \cup {<<JavaClassInput("ClassA", n, c), JavaClassInput("ClassB", m, d)>> :
             n \in 0..MaxMethods, c \in 0..MaxCtors,
             m \in 0..MaxSmall, d \in 0..MaxCtors}

\* the files under test: Java files that parse, XML and Python files that
\* parse (tags: the count of each element type or function, in order of first
\* occurrence), and files of each language whose parser raises
ChunkFiles ==
    {[language |-> "java", fails |-> FALSE, classes |-> cs, tags |-> <<>>,
      pieces |-> p] : cs \in JavaInputs, p \in 1..MaxPieces}
    \cup {[language |-> l, fails |-> FALSE, classes |-> <<>>,
           tags |-> [i \in 1..n |-> i], pieces |-> p] :
             l \in {"xml", "py"}, n \in 1..MaxElements, p \in 1..MaxPieces}
    \cup {[language |-> l, fails |-> TRUE, classes |-> <<>>, tags |-> <<>>,
           pieces |-> p] : l \in {"java", "xml", "py"}, p \in 1..MaxPieces}

InitChunks ==
    /\ NoSession
    /\ IdleRouter
    /\ IdleQuality
    /\ IdleParser
    /\ IdleIndex
    /\ cb_file \in ChunkFiles
    /\ cb_methods = <<>>
    /\ cb_pc = "ready"
    /\ cb_chunks = <<>>

\* the call format_methods_for_chunks(cls_info) for the first class of the file
FormatMethods ==
    /\ cb_methods = <<>>
    /\ cb_file.classes /= <<>>
    /\ cb_methods' =
          format_methods_for_chunks(extract_code_structure(cb_file).classes[1])
    /\ UNCHANGED <<cb_file, cb_pc, cb_chunks, sessionVars, turnVars,
                   routerVars, qualityVars, parserVars, indexVars>>

\* the call create_enhanced_chunks(file_path, code)
CreateChunks ==
    /\ cb_pc = "ready"
    /\ cb_chunks' = create_enhanced_chunks(cb_file)
    /\ cb_pc' = "built"
    /\ UNCHANGED <<cb_file, cb_methods, sessionVars, turnVars, routerVars,
                   qualityVars, parserVars, indexVars>>

NextChunks == FormatMethods \/ CreateChunks

SpecChunks == InitChunks /\ [][NextChunks]_vars

\* the regular methods of the first class of the file under test
RegularCount ==
    Len(SelectSeq(cb_file.classes[1].methods, IsRegular))

\* C15: for a class with more than 20 regular methods format_methods_for_chunks
\* returns one header chunk followed by exactly ceil(count / 20) method-group
\* chunks, and group N lists the methods 20(N-1)+1 .. min(20N, count).
C15_MethodGroups ==
    (cb_methods /= <<>> /\ RegularCount > 20) =>
        LET count == RegularCount
            groups == CHOOSE g \in 1..count : 20 * (g - 1) < count /\ count <= 20 * g
        IN  /\ Len(cb_methods) = 1 + groups
            /\ cb_methods[1].title = "header"
            /\ \A N \in 1..groups :
                  LET from == 20 * (N - 1) + 1
                      to == IF 20 * N < count THEN 20 * N ELSE count
                  IN  /\ cb_methods[N + 1].title = "methods"
                      /\ cb_methods[N + 1].first = from
                      /\ cb_methods[N + 1].last = to
                      /\ [j \in 1..Len(cb_methods[N + 1].lines) |->
                             cb_methods[N + 1].lines[j].no]
                         = [j \in 1..(to - from + 1) |-> from + j - 1]

\* a class of 41 regular methods formatted into a header and three groups
C15_Witness ==
    /\ cb_methods /= <<>>
    /\ RegularCount = 41
    /\ Len(cb_methods) = 4
    /\ cb_methods[4].first = 41

\* the positions in cb_chunks of the chunks of the given type made for the
\* class of the given name; of the method chunks, those of the given title
ChunksOf(name, type, title) ==
    {i \in 1..Len(cb_chunks) :
        /\ cb_chunks[i].metadata.type = type
        /\ cb_chunks[i].metadata.more.class_name = name
        /\ type = "java_class_methods" => cb_chunks[i].page_content.title = title}

\* the first and last method numbers of the method-group chunks of a class
GroupRanges(name) ==
    {<<cb_chunks[i].page_content.first, cb_chunks[i].page_content.last>> :
        i \in ChunksOf(name, "java_class_methods", "methods")}

\* the classes of the file under test that have the given number of regular
\* methods, the file built into chunks
ClassesWith(count) ==
    IF cb_pc = "built" /\ cb_file.language = "java" /\ ~cb_file.fails
    THEN {cb_file.classes[k].name : k \in
             {h \in 1..Len(cb_file.classes) :
                 Len(SelectSeq(cb_file.classes[h].methods, IsRegular)) = count}}
    ELSE {}

\* C16 as stated: a class with 25 regular methods yields 1 header chunk, 2
\* method-group chunks (methods 1-20 and 21-25) and 1 class-info chunk; a
\* class with 3 regular methods yields 1 header chunk, no method-group chunk,
\* and 1 class-info chunk.
C16_ChunkCounts_Original ==
    /\ \A name \in ClassesWith(25) :
          /\ Cardinality(ChunksOf(name, "java_class_methods", "header")) = 1
          /\ Cardinality(ChunksOf(name, "java_class_methods", "methods")) = 2
          /\ GroupRanges(name) = {<<1, 20>>, <<21, 25>>}
          /\ Cardinality(ChunksOf(name, "java_class_info", "")) = 1
    /\ \A name \in ClassesWith(3) :
          /\ Cardinality(ChunksOf(name, "java_class_methods", "header")) = 1
          /\ Cardinality(ChunksOf(name, "java_class_methods", "methods")) = 0
          /\ Cardinality(ChunksOf(name, "java_class_info", "")) = 1

\* C16, amended: a class with 25 regular methods yields 1 header chunk, 2
\* method-group chunks (methods 1-20 and 21-25) and 1 class-info chunk; a
\* class with 3 regular methods yields 1 header chunk, 1 method-group chunk
\* (methods 1-3) and 1 class-info chunk.
C16_ChunkCounts ==
    /\ \A name \in ClassesWith(25) :
          /\ Cardinality(ChunksOf(name, "java_class_methods", "header")) = 1
          /\ Cardinality(ChunksOf(name, "java_class_methods", "methods")) = 2
          /\ GroupRanges(name) = {<<1, 20>>, <<21, 25>>}
          /\ Cardinality(ChunksOf(name, "java_class_info", "")) = 1
    /\ \A name \in ClassesWith(3) :
          /\ Cardinality(ChunksOf(name, "java_class_methods", "header")) = 1
          /\ Cardinality(ChunksOf(name, "java_class_methods", "methods")) = 1
          /\ GroupRanges(name) = {<<1, 3>>}
          /\ Cardinality(ChunksOf(name, "java_class_info", "")) = 1

\* a file with a class of 25 regular methods and a class of 3, built
C16_Witness ==
    /\ ClassesWith(25) = {"ClassA"}
    /\ ClassesWith(3) = {"ClassB"}
    /\ Cardinality(ChunksOf("ClassB", "java_class_methods", "methods")) = 1

\* C17: every Java class found in a file yields exactly one class-info chunk
\* (type java_class_info); a class with zero methods does too, its method
\* count shown as 0, and it gets no method-index chunk.
C17_OneClassInfoPerClass ==
    (cb_pc = "built" /\ cb_file.language = "java" /\ ~cb_file.fails) =>
        /\ Cardinality({i \in 1..Len(cb_chunks) :
                           cb_chunks[i].metadata.type = "java_class_info"})
              = Len(cb_file.classes)
        /\ \A k \in 1..Len(cb_file.classes) :
              LET name == cb_file.classes[k].name
                  info == ChunksOf(name, "java_class_info", "")
              IN  /\ Cardinality(info) = 1
                  /\ cb_file.classes[k].methods = <<>> =>
                        /\ \A i \in info : cb_chunks[i].page_content.methods = 0
                        /\ \A i \in 1..Len(cb_chunks) :
                              cb_chunks[i].metadata.type = "java_class_methods"
                                 => cb_chunks[i].metadata.more.class_name /= name

\* a file built whose second class has no method and no constructor
C17_Witness ==
    /\ cb_pc = "built"
    /\ cb_file.language = "java"
    /\ Len(cb_file.classes) = 2
    /\ cb_file.classes[1].methods /= <<>>
    /\ cb_file.classes[2].methods = <<>>
    /\ Cardinality(ChunksOf("ClassB", "java_class_info", "")) = 1

\* where a chunk of the given type stands: summary, element, generic code
ChunkRank(type) ==
    IF type = "semantic_summary" THEN 1
    ELSE IF type = "code_chunk" THEN 3
    ELSE 2

\* C18: create_enhanced_chunks returns exactly one summary chunk, first, then
\* all element chunks, then all generic code chunks.
C18_ChunkOrder ==
    cb_pc = "built" =>
        /\ Len(cb_chunks) >= 1
        /\ Cardinality({i \in 1..Len(cb_chunks) :
                           cb_chunks[i].metadata.type = "semantic_summary"}) = 1
        /\ cb_chunks[1].metadata.type = "semantic_summary"
        /\ \A i, j \in 1..Len(cb_chunks) :
              i < j => ChunkRank(cb_chunks[i].metadata.type)
                          <= ChunkRank(cb_chunks[j].metadata.type)

\* a file built into a summary, element chunks and two generic code chunks
C18_Witness ==
    /\ cb_pc = "built"
    /\ Len(cb_chunks) >= 5
    /\ cb_chunks[2].metadata.type = "java_class_methods"
    /\ cb_chunks[Len(cb_chunks) - 1].metadata.type = "code_chunk"
    /\ cb_chunks[Len(cb_chunks) - 2].metadata.type = "java_class_info"

\* C19: a file whose structural extraction fails entirely (the Java, XML or
\* Python parser raises) is not dropped: the extraction returns an empty
\* structural result, and create_enhanced_chunks still produces the summary
\* chunk and the generic code chunks for it.
C19_FailedExtractionStillChunked ==
    (cb_pc = "built" /\ cb_file.fails) =>
        /\ extract_code_structure(cb_file).classes = <<>>
        /\ extract_code_structure(cb_file).elements = <<>>
        /\ extract_code_structure(cb_file).functions = <<>>
        /\ Len(cb_chunks) = 1 + cb_file.pieces
        /\ cb_chunks[1].metadata.type = "semantic_summary"
        /\ cb_chunks[1].metadata.source = FilePath(cb_file)
        /\ \A i \in 2..Len(cb_chunks) :
              cb_chunks[i].metadata.type = "code_chunk"
        /\ cb_file.pieces >= 1

\* an XML file that does not parse, built into its summary and code chunks
C19_Witness ==
    /\ cb_pc = "built"
    /\ cb_file.fails
    /\ cb_file.language = "xml"
    /\ Len(cb_chunks) = 3

\* C21: every chunk create_enhanced_chunks returns carries the metadata keys
\* source, language and type: source is the file path passed in, language is
\* the extension of that path, and type is one of semantic_summary,
\* java_class_methods, java_class_info, xml_element and code_chunk.
C21_ChunkMetadata ==
    cb_pc = "built" =>
        \A i \in 1..Len(cb_chunks) :
            LET metadata == cb_chunks[i].metadata
            IN  /\ {"source", "language", "type"} \subseteq DOMAIN metadata
                /\ metadata.source = FilePath(cb_file)
                /\ metadata.language = FilePath(cb_file).suffix
                /\ metadata.type \in {"semantic_summary", "java_class_methods",
                                      "java_class_info", "xml_element",
                                      "code_chunk"}
                /\ metadata.type \in {"java_class_methods", "java_class_info"}
                      => metadata.language = "java"
                /\ metadata.type = "xml_element" => metadata.language = "xml"

\* a Java file built into chunks of four types
C21_Witness ==
    /\ cb_pc = "built"
    /\ cb_file.language = "java"
    /\ \A t \in {"semantic_summary", "java_class_methods", "java_class_info",
                 "code_chunk"} :
          \E i \in 1..Len(cb_chunks) : cb_chunks[i].metadata.type = t

\* C22: in the summary chunk every list of names (classes, elements,
\* functions) shows at most 5 entries, for every language and however many
\* entries the structure of the file holds.
C22_SummaryListsAtMostFive ==
    cb_pc = "built" =>
        LET summary == cb_chunks[1].page_content
        IN  /\ cb_chunks[1].metadata.type = "semantic_summary"
            /\ Len(summary.classes) <= 5
            /\ Len(summary.elements) <= 5
            /\ Len(summary.functions) <= 5

\* C30: for a class with R >= 0 regular methods and any number of
\* constructors format_methods_for_chunks returns 1 + ceil(R / 20) chunks;
\* every regular method is listed in exactly one method-group chunk, the
\* lines are numbered 1..R consecutively across the groups in alphabetical
\* order of the method names, no group lists more than 20 methods, and the
\* constructors are listed in the header chunk only.
C30_EveryMethodListedOnce ==
    cb_methods /= <<>> =>
        LET methods == cb_file.classes[1].methods
            regular == {i \in 1..Len(methods) : ~methods[i].is_constructor}
            R == Cardinality(regular)
            rank(name) == CHOOSE a \in 1..Len(NameOrder) : NameOrder[a] = name
            \* the lines of the group chunks, one after the other
            listed == Flatten([g \in 1..(Len(cb_methods) - 1) |->
                                  cb_methods[g + 1].lines])
            names == [k \in 1..Len(listed) |-> listed[k].name]
        IN  /\ Len(cb_methods) = 1 + ((R + 19) \div 20)
            /\ cb_methods[1].title = "header"
            /\ Len(cb_methods[1].constructors) = Len(methods) - R
            /\ \A c \in 1..Len(cb_methods[1].constructors) :
                  cb_methods[1].constructors[c].name = cb_file.classes[1].name
            /\ \A g \in 2..Len(cb_methods) :
                  /\ cb_methods[g].title = "methods"
                  /\ Len(cb_methods[g].lines) \in 1..20
            /\ Len(listed) = R
            /\ \A k \in 1..R : listed[k].no = k
            /\ \A i \in regular :
                  \E k \in 1..R :
                      /\ names[k] = methods[i].name
                      /\ \A l \in 1..R : names[l] = names[k] => l = k
            /\ \A k \in 1..(R - 1) : rank(names[k]) < rank(names[k + 1])
            /\ \A k \in 1..R : names[k] /= cb_file.classes[1].name

\* a class of 41 regular methods and a constructor, formatted into a header
\* with the constructor and three groups, the last one of a single method
C30_Witness ==
    /\ Len(cb_methods) = 4
    /\ Len(cb_methods[1].constructors) = 1
    /\ Len(cb_methods[2].lines) = 20
    /\ Len(cb_methods[4].lines) = 1
    /\ cb_methods[4].lines[1].no = 41

\* ------------------------------------------------------- the index build

\* the files of the source tree, in the order os.walk visits them; a file is
\* named by its suffix
IndexedFiles == <<"java", "xml", "py">>

\* the source trees: for each file 0 when it is absent or blank, else the
\* number of methods of its class or of element types in it
Trees == [{IndexedFiles[i] : i \in 1..Len(IndexedFiles)} -> 0..MaxVersions]

\* the file of the given suffix and size, as the chunk builder takes it
FileAt(suffix, size) ==
    [language |-> suffix, fails |-> FALSE,
     classes |-> IF suffix = "java"
                 THEN <<JavaClassInput("ClassA", size, 0)>> ELSE <<>>,
     tags |-> IF suffix = "java" THEN <<>> ELSE [i \in 1..size |-> i],
     pieces |-> 1]

\* load_code_files: the chunks of every file that is there and not blank
load_code_files(tree) ==
    Flatten([i \in 1..Len(IndexedFiles) |->
                IF tree[IndexedFiles[i]] = 0 THEN <<>>
                ELSE create_enhanced_chunks(
                        FileAt(IndexedFiles[i], tree[IndexedFiles[i]]))])

\* the old index directory left in place
rmtree_skipped(store) == store

\* if os.path.exists(persist_dir): shutil.rmtree(persist_dir)
rmtree(store) == <<>>

\* Chroma.from_documents(documents=docs, ..., persist_directory=persist_dir)
\* and persist(): the documents are added to what the directory holds
from_documents(store, docs) == store \o docs

\* build_code_index is not running
BuildIdle == ix_pc \in {"idle", "finished", "failed"}

InitIndex ==
    /\ NoSession
    /\ IdleRouter
    /\ IdleQuality
    /\ IdleParser
    /\ IdleChunks
    /\ ix_tree \in Trees
    /\ ix_pc = "idle"
    /\ ix_docs = <<>>
    /\ ix_store = <<>>
    /\ ix_prior = <<>>
    /\ ix_builds = 0

\* files are added, changed or removed between two builds
ChangeSources ==
    /\ BuildIdle
    /\ ix_builds < MaxBuilds
    /\ \E tree \in Trees : tree /= ix_tree /\ ix_tree' = tree
    /\ UNCHANGED <<ix_pc, ix_docs, ix_store, ix_prior, ix_builds, sessionVars,
                   turnVars, routerVars, qualityVars, parserVars, chunkVars>>

\* build_code_index starts: docs = load_code_files(...); if not docs: return
LoadFiles ==
    /\ BuildIdle
    /\ ix_builds < MaxBuilds
    /\ ix_docs' = load_code_files(ix_tree)
    /\ ix_prior' = ix_store
    /\ ix_builds' = ix_builds + 1
    /\ ix_pc' = IF ix_docs' = <<>> THEN "finished" ELSE "loaded"
    /\ UNCHANGED <<ix_tree, ix_store, sessionVars, turnVars, routerVars,
                   qualityVars, parserVars, chunkVars>>

\* HuggingFaceEmbeddings(...) raises: the run ends before anything is removed
EmbeddingsFail ==
    /\ ix_pc = "loaded"
    /\ ix_pc' = "failed"
    /\ UNCHANGED <<ix_tree, ix_docs, ix_store, ix_prior, ix_builds, sessionVars,
                   turnVars, routerVars, qualityVars, parserVars, chunkVars>>

\* the old index directory is removed
RemoveOld ==
    /\ ix_pc = "loaded"
    /\ ix_store' = rmtree(ix_store)
    /\ ix_pc' = "removed"
    /\ UNCHANGED <<ix_tree, ix_docs, ix_prior, ix_builds, sessionVars,
                   turnVars, routerVars, qualityVars, parserVars, chunkVars>>

\* the chunks of this run are embedded and persisted; the run finishes
StoreDocs ==
    /\ ix_pc = "removed"
    /\ ix_store' = from_documents(ix_store, ix_docs)
    /\ ix_pc' = "finished"
    /\ UNCHANGED <<ix_tree, ix_docs, ix_prior, ix_builds, sessionVars,
                   turnVars, routerVars, qualityVars, parserVars, chunkVars>>

\* Chroma.from_documents raises: the run ends with the old index removed
StoreFails ==
    /\ ix_pc = "removed"
    /\ ix_pc' = "failed"
    /\ UNCHANGED <<ix_tree, ix_docs, ix_store, ix_prior, ix_builds, sessionVars,
                   turnVars, routerVars, qualityVars, parserVars, chunkVars>>

NextIndex ==
    \/ ChangeSources
    \/ LoadFiles
    \/ EmbeddingsFail
    \/ RemoveOld
    \/ StoreDocs
    \/ StoreFails

SpecIndex == InitIndex /\ [][NextIndex]_vars

\* C20 as stated: every code-index build is a destructive full rebuild: once
\* build_code_index has finished, the persisted code index holds exactly the
\* chunks of that run and none from an earlier build.
C20_DestructiveRebuild_Original ==
    ix_pc = "finished" => ix_store = ix_docs

\* C20, amended: every code-index build that loads at least one chunk is a
\* destructive full rebuild: once it has finished, the persisted code index
\* holds exactly the chunks of that run and none from an earlier build; a run
\* that loads no chunk returns with the persisted index as it found it.
C20_DestructiveRebuild ==
    ix_pc = "finished" =>
        /\ ix_docs /= <<>> => ix_store = ix_docs
        /\ ix_docs = <<>> => ix_store = ix_prior

\* a second build finished over a different non-empty index of the first
C20_Witness ==
    /\ ix_pc = "finished"
    /\ ix_builds = 2
    /\ ix_docs /= <<>>
    /\ ix_prior /= <<>>
    /\ ix_prior /= ix_docs
    /\ ix_store = ix_docs

====
